---------------------------- MODULE Spec2Model ----------------------------
(***************************************************************************)
(* A model of two fragments of the repository:                             *)
(*                                                                         *)
(*  - SgemmTransposePackB16x4Lasx.s: the LASX routine                      *)
(*    MlasSgemmTransposePackB16x4Lasx and its macro                        *)
(*    TransposePackB8x4BlockLasx, executed instruction by instruction on   *)
(*    a register file and a word-addressed memory;                         *)
(*                                                                         *)
(*  - nnapi_api_helper.cc: GetTargetDevices, GetDeviceFeatureLevelInternal,*)
(*    GetNNAPIEffectiveFeatureLevelFromTargetDeviceOption and              *)
(*    GetNNAPIEffectiveFeatureLevel, against a hardware-abstraction handle *)
(*    whose queries may fail.                                              *)
(***************************************************************************)
EXTENDS Integers, Sequences, FiniteSets, TLC

VARIABLES
    mem,        \* memory, one value per 32-bit word: word index -> value
    cpu,        \* thread id -> [entry, pc, gpr, xr]: the register file of each thread
    reads,      \* the word indexes loaded so far
    stores,     \* the word stores made so far, in order: <<word index, thread>>
    input,      \* the arguments of the packing call: [ldb, col0, fill]
    nnapi_handle,           \* [build, nnapi_runtime_feature_level, device_api_level, hw]
    target_device_option,   \* "ALL_DEVICES" | "CPU_DISABLED" | "CPU_ONLY"
    devices,    \* InlinedVector<DeviceWrapper>& devices
    frame,      \* the locals of GetTargetDevices and its program counter
    status,     \* the Status GetTargetDevices returned: "none" | "OK" | "FAIL"
    queries,    \* the hardware queries issued so far, in order
    call        \* [fn, devices0, result]: the entry point called, its input list, its result

kvars == <<mem, cpu, reads, stores, input>>
dvars == <<nnapi_handle, target_device_option, devices, frame, status, queries, call>>
vars == <<mem, cpu, reads, stores, input,
          nnapi_handle, target_device_option, devices, frame, status, queries, call>>

(***************************************************************************)
(* Bounds of the model.                                                    *)
(***************************************************************************)
\* The largest row stride (in elements) of the source matrix that is tried.
MaxLdb == 6
\* The largest number of devices the hardware enumerates.
MaxDevices == 3
\* The largest number of devices handed to GetNNAPIEffectiveFeatureLevel.
MaxSpan == 2

(***************************************************************************)
(* Part 1: SgemmTransposePackB16x4Lasx.s                                   *)
(***************************************************************************)

\* The content of a register or of a memory word nothing has written yet.
Junk == 0 - 1
\* The content of the words of the enclosing matrix that lie outside the window.
Sentinel == 0 - 2
JunkQ == <<Junk, Junk, Junk, Junk>>

\* The window the routine is specified for: 16 rows of 4 columns.
WinRows == 4 * 4
WinCols == 2 + 2
\* The destination packed buffer holds WinRows * WinCols words, at word 0.
DstWords == WinRows * WinCols
\* The enclosing source matrix follows it: one more row than the window, ldb columns.
SrcWord0 == DstWords
MatRows == WinRows + 1

\* The word index of element (r, c) of the window, for a view that starts at
\* column c0 of an enclosing matrix with ld elements per row.
SrcWord(ld, c0, r, c) == SrcWord0 + r * ld + c0 + c
WindowWords(ld, c0) == {SrcWord(ld, c0, r, c) : r \in 0..(WinRows - 1), c \in 0..(WinCols - 1)}
MatWords(ld) == SrcWord0..(SrcWord0 + MatRows * ld - 1)

\* The initial memory: the destination is uninitialised, the source matrix is
\* filled with its own word index ("index", every element distinct), or with a
\* sentinel around the window and, inside it, row*4+col ("rowcol") or the row
\* alone ("row", every value four times).
FillValue(ld, c0, fill, w) ==
    IF w < SrcWord0 THEN Junk
    ELSE IF fill = "index" THEN w
    ELSE LET r == (w - SrcWord0) \div ld
             c == ((w - SrcWord0) % ld) - c0
         IN IF r < WinRows /\ c >= 0 /\ c < WinCols
            THEN (IF fill = "rowcol" THEN r * 4 + c ELSE r)
            ELSE Sentinel
InitialMem(ld, c0, fill) ==
    [w \in 0..(SrcWord0 + MatRows * ld - 1) |-> FillValue(ld, c0, fill, w)]

\* ---- instructions -------------------------------------------------------
I_add_d(rd, rj, rk) == [op |-> "add.d", rd |-> rd, rj |-> rj, rk |-> rk]
I_slli_d(rd, rj, ui) == [op |-> "slli.d", rd |-> rd, rj |-> rj, ui |-> ui]
I_vld(vd, rj, si) == [op |-> "vld", vd |-> vd, rj |-> rj, si |-> si]
I_vldx(vd, rj, rk) == [op |-> "vldx", vd |-> vd, rj |-> rj, rk |-> rk]
I_xvpermi_q(xd, xj, ui) == [op |-> "xvpermi.q", xd |-> xd, xj |-> xj, ui |-> ui]
I_xvilvl_w(xd, xj, xk) == [op |-> "xvilvl.w", xd |-> xd, xj |-> xj, xk |-> xk]
I_xvilvh_w(xd, xj, xk) == [op |-> "xvilvh.w", xd |-> xd, xj |-> xj, xk |-> xk]
I_xvilvl_d(xd, xj, xk) == [op |-> "xvilvl.d", xd |-> xd, xj |-> xj, xk |-> xk]
I_xvilvh_d(xd, xj, xk) == [op |-> "xvilvh.d", xd |-> xd, xj |-> xj, xk |-> xk]
I_xvst(xd, rj, si) == [op |-> "xvst", xd |-> xd, rj |-> rj, si |-> si]
I_jr(rj) == [op |-> "jr", rj |-> rj]

\* The byte offsets of the four stores of the macro (0x00, 0x40, 0x80, 0xc0).
StoreStride == 64
\* A stride of 0x20, the width of one store, instead of 0x40.
StoreDisp_Stride32(k, StoreOffset) == k * 32 + StoreOffset
StoreDisp(k, StoreOffset) == k * StoreStride + StoreOffset

\* .macro TransposePackB8x4BlockLasx StoreOffset
TransposePackB8x4BlockLasx(StoreOffset) == <<
    I_add_d("t0", "a2", "a2"),
    I_add_d("t6", "a1", "t0"),
    I_vld(0, "a1", 0),
    I_vldx(1, "a1", "a2"),
    I_add_d("t0", "a2", "a2"),
    I_add_d("a1", "t6", "t0"),
    I_vld(2, "t6", 0),
    I_vldx(3, "t6", "a2"),
    I_add_d("t0", "a2", "a2"),
    I_add_d("t6", "a1", "t0"),
    I_vld(4, "a1", 0),
    I_xvpermi_q(0, 4, 2),
    I_vldx(5, "a1", "a2"),
    I_xvpermi_q(1, 5, 2),
    I_vld(4, "t6", 0),
    I_xvpermi_q(2, 4, 2),
    I_vldx(5, "t6", "a2"),
    I_xvpermi_q(3, 5, 2),
    I_xvilvl_w(4, 1, 0),
    I_xvilvh_w(5, 1, 0),
    I_xvilvl_w(0, 3, 2),
    I_xvilvh_w(1, 3, 2),
    I_xvilvl_d(2, 0, 4),
    I_xvilvh_d(3, 0, 4),
    I_xvst(2, "a0", StoreDisp(0, StoreOffset)),
    I_xvst(3, "a0", StoreDisp(1, StoreOffset)),
    I_xvilvl_d(0, 1, 5),
    I_xvilvh_d(4, 1, 5),
    I_xvst(0, "a0", StoreDisp(2, StoreOffset)),
    I_xvst(4, "a0", StoreDisp(3, StoreOffset)) >>

\* The routine with the second expansion storing at offset 0*4 too.
MlasSgemmTransposePackB16x4Lasx_SameOffset ==
    << I_slli_d("a2", "a2", 2) >>
    \o TransposePackB8x4BlockLasx(0 * 4)
    \o << I_add_d("t0", "a2", "a2"), I_add_d("a1", "t0", "t6") >>
    \o TransposePackB8x4BlockLasx(0 * 4)
    \o << I_jr("ra") >>

\* FUNCTION_ENTRY MlasSgemmTransposePackB16x4Lasx
MlasSgemmTransposePackB16x4Lasx ==
    << I_slli_d("a2", "a2", 2) >>
    \o TransposePackB8x4BlockLasx(0 * 4)
    \o << I_add_d("t0", "a2", "a2"), I_add_d("a1", "t0", "t6") >>
    \o TransposePackB8x4BlockLasx(8 * 4)
    \o << I_jr("ra") >>

\* Both expansions of the macro storing at offset 0*4.
Code_SameOffset(entry) ==
    CASE entry = "MlasSgemmTransposePackB16x4Lasx" -> MlasSgemmTransposePackB16x4Lasx
      [] entry = "TransposePackB8x4BlockLasx_0" -> TransposePackB8x4BlockLasx(0 * 4)
      [] entry = "TransposePackB8x4BlockLasx_8" -> TransposePackB8x4BlockLasx(0 * 4)

\* The code a thread runs: the whole routine, or one expansion of the macro.
Code(entry) ==
    CASE entry = "MlasSgemmTransposePackB16x4Lasx" -> MlasSgemmTransposePackB16x4Lasx
      [] entry = "TransposePackB8x4BlockLasx_0" -> TransposePackB8x4BlockLasx(0 * 4)
      [] entry = "TransposePackB8x4BlockLasx_8" -> TransposePackB8x4BlockLasx(8 * 4)

\* ---- the register file and the memory -----------------------------------
XRegs == 0..5
Lo(x) == SubSeq(x, 1, 4)
Hi(x) == SubSeq(x, 5, 8)

\* A thread at the entry of `entry` with arguments D (a0), B (a1) and a2; the
\* temporaries and the vector registers hold whatever the caller left there.
Thread(entry, D, B, a2) ==
    [entry |-> entry, pc |-> 1,
     gpr |-> [a0 |-> D, a1 |-> B, a2 |-> a2, t0 |-> Junk, t6 |-> Junk, ra |-> Junk],
     xr |-> [x \in XRegs |-> JunkQ \o JunkQ]]

InRange(th) == th.pc \in 1..Len(Code(th.entry))
Running(t) == InRange(cpu[t])
CurIns(th) == Code(th.entry)[th.pc]
Ins(t) == CurIns(cpu[t])

\* The instruction's result is written and the thread moves to the next one.
SetGpr(th, rd, v) == [th EXCEPT !.gpr[rd] = v, !.pc = @ + 1]
SetXr(th, xd, v) == [th EXCEPT !.xr[xd] = v, !.pc = @ + 1]

\* The words of a 128-bit (n = 4) or 256-bit (n = 8) access at byte address a.
AccessWords(a, n) == [k \in 1..n |-> (a \div 4) + k - 1]
Range(s) == {s[k] : k \in DOMAIN s}
MemWord(m, w) == IF w \in DOMAIN m THEN m[w] ELSE Junk
Load128(m, a) == [k \in 1..4 |-> MemWord(m, AccessWords(a, 4)[k])]

\* ---- the semantics of each instruction -----------------------------------
\* add.d rd, rj, rk
ExecAddD(th) ==
    LET i == CurIns(th) IN SetGpr(th, i.rd, th.gpr[i.rj] + th.gpr[i.rk])

\* A shift by 3, the conversion of a count of 8-byte elements to bytes.
ExecSlliD_By3(th) ==
    LET i == CurIns(th) IN SetGpr(th, i.rd, th.gpr[i.rj] * (2 ^ 3))

\* slli.d rd, rj, ui
ExecSlliD(th) ==
    LET i == CurIns(th) IN SetGpr(th, i.rd, th.gpr[i.rj] * (2 ^ i.ui))

\* vld vd, rj, si12 and vldx vd, rj, rk: the byte address, and the 128-bit load
\* into vd, the low half of xd; hi is what the high half of xd holds afterwards.
VldAddr(th) == LET i == CurIns(th) IN th.gpr[i.rj] + i.si
VldxAddr(th) == LET i == CurIns(th) IN th.gpr[i.rj] + th.gpr[i.rk]
LoadedWords(a) == Range(AccessWords(a, 4))
ExecLoad(th, m, a, hi) == SetXr(th, CurIns(th).vd, Load128(m, a) \o hi)

\* xvpermi.q xd, xj, ui8: each 128-bit half of xd is picked by two bits of ui8
\* (bits 1:0 for the low half, 5:4 for the high half) among xj.lo, xj.hi,
\* xd.lo, xd.hi.
PermiPick(d, j, sel) ==
    CASE sel = 0 -> Lo(j) [] sel = 1 -> Hi(j) [] sel = 2 -> Lo(d) [] sel = 3 -> Hi(d)
XvpermiQValue(d, j, ui) == PermiPick(d, j, ui % 4) \o PermiPick(d, j, (ui \div 16) % 4)
ExecXvpermiQ(th) ==
    LET i == CurIns(th) IN SetXr(th, i.xd, XvpermiQValue(th.xr[i.xd], th.xr[i.xj], i.ui))

\* xvilvl.w / xvilvh.w: in each 128-bit lane, interleave the two low (high)
\* words of xk and xj, xk's word first.
IlvW(j, k, base) == << k[base + 1], j[base + 1], k[base + 2], j[base + 2] >>
\* The operands taken in the other order: xj's word first.
XvilvlWValue_Swapped(j, k) == IlvW(Lo(k), Lo(j), 0) \o IlvW(Hi(k), Hi(j), 0)
XvilvlWValue(j, k) == IlvW(Lo(j), Lo(k), 0) \o IlvW(Hi(j), Hi(k), 0)
XvilvhWValue(j, k) == IlvW(Lo(j), Lo(k), 2) \o IlvW(Hi(j), Hi(k), 2)
ExecXvilvlW(th) ==
    LET i == CurIns(th) IN SetXr(th, i.xd, XvilvlWValue(th.xr[i.xj], th.xr[i.xk]))
ExecXvilvhW(th) ==
    LET i == CurIns(th) IN SetXr(th, i.xd, XvilvhWValue(th.xr[i.xj], th.xr[i.xk]))

\* xvilvl.d / xvilvh.d: in each 128-bit lane, the low (high) doubleword of xk
\* followed by the low (high) doubleword of xj.
IlvD(j, k, base) == << k[base + 1], k[base + 2], j[base + 1], j[base + 2] >>
XvilvlDValue(j, k) == IlvD(Lo(j), Lo(k), 0) \o IlvD(Hi(j), Hi(k), 0)
XvilvhDValue(j, k) == IlvD(Lo(j), Lo(k), 2) \o IlvD(Hi(j), Hi(k), 2)
ExecXvilvlD(th) ==
    LET i == CurIns(th) IN SetXr(th, i.xd, XvilvlDValue(th.xr[i.xj], th.xr[i.xk]))
ExecXvilvhD(th) ==
    LET i == CurIns(th) IN SetXr(th, i.xd, XvilvhDValue(th.xr[i.xj], th.xr[i.xk]))

\* xvst xd, rj, si12: the eight words of xd go to memory at rj + si12.
StoreWords(th) == LET i == CurIns(th) IN AccessWords(th.gpr[i.rj] + i.si, 8)
ExecXvstMem(th, m) ==
    LET ws == StoreWords(th)
        at(w) == CHOOSE k \in 1..8 : ws[k] = w
    IN [w \in DOMAIN m |-> IF w \in Range(ws) THEN th.xr[CurIns(th).xd][at(w)] ELSE m[w]]

\* The memory a thread leaves when it runs alone from th on memory m to the end
\* of its code (a 128-bit load keeping the high half of its register).
RECURSIVE RunAlone(_, _)
RunAlone(th, m) ==
    IF ~InRange(th) THEN m
    ELSE LET op == CurIns(th).op
         IN CASE op = "add.d" -> RunAlone(ExecAddD(th), m)
              [] op = "slli.d" -> RunAlone(ExecSlliD(th), m)
              [] op = "vld" ->
                    RunAlone(ExecLoad(th, m, VldAddr(th), Hi(th.xr[CurIns(th).vd])), m)
              [] op = "vldx" ->
                    RunAlone(ExecLoad(th, m, VldxAddr(th), Hi(th.xr[CurIns(th).vd])), m)
              [] op = "xvpermi.q" -> RunAlone(ExecXvpermiQ(th), m)
              [] op = "xvilvl.w" -> RunAlone(ExecXvilvlW(th), m)
              [] op = "xvilvh.w" -> RunAlone(ExecXvilvhW(th), m)
              [] op = "xvilvl.d" -> RunAlone(ExecXvilvlD(th), m)
              [] op = "xvilvh.d" -> RunAlone(ExecXvilvhD(th), m)
              [] op = "xvst" -> RunAlone([th EXCEPT !.pc = @ + 1], ExecXvstMem(th, m))
              [] op = "jr" -> m

\* ---- one action per instruction --------------------------------------------
AddD(t) ==
    /\ Running(t) /\ Ins(t).op = "add.d"
    /\ cpu' = [cpu EXCEPT ![t] = ExecAddD(cpu[t])]
    /\ UNCHANGED <<mem, reads, stores, input, dvars>>

SlliD(t) ==
    /\ Running(t) /\ Ins(t).op = "slli.d"
    /\ cpu' = [cpu EXCEPT ![t] = ExecSlliD(cpu[t])]
    /\ UNCHANGED <<mem, reads, stores, input, dvars>>

\* The ISA leaves the high half of xd after a 128-bit write unspecified: it is
\* kept, or it is junk.
Vld(t) ==
    /\ Running(t) /\ Ins(t).op = "vld"
    /\ \E hi \in {Hi(cpu[t].xr[Ins(t).vd]), JunkQ} :
          cpu' = [cpu EXCEPT ![t] = ExecLoad(cpu[t], mem, VldAddr(cpu[t]), hi)]
    /\ reads' = reads \cup LoadedWords(VldAddr(cpu[t]))
    /\ UNCHANGED <<mem, stores, input, dvars>>

Vldx(t) ==
    /\ Running(t) /\ Ins(t).op = "vldx"
    /\ \E hi \in {Hi(cpu[t].xr[Ins(t).vd]), JunkQ} :
          cpu' = [cpu EXCEPT ![t] = ExecLoad(cpu[t], mem, VldxAddr(cpu[t]), hi)]
    /\ reads' = reads \cup LoadedWords(VldxAddr(cpu[t]))
    /\ UNCHANGED <<mem, stores, input, dvars>>

XvpermiQ(t) ==
    /\ Running(t) /\ Ins(t).op = "xvpermi.q"
    /\ cpu' = [cpu EXCEPT ![t] = ExecXvpermiQ(cpu[t])]
    /\ UNCHANGED <<mem, reads, stores, input, dvars>>

XvilvlW(t) ==
    /\ Running(t) /\ Ins(t).op = "xvilvl.w"
    /\ cpu' = [cpu EXCEPT ![t] = ExecXvilvlW(cpu[t])]
    /\ UNCHANGED <<mem, reads, stores, input, dvars>>

XvilvhW(t) ==
    /\ Running(t) /\ Ins(t).op = "xvilvh.w"
    /\ cpu' = [cpu EXCEPT ![t] = ExecXvilvhW(cpu[t])]
    /\ UNCHANGED <<mem, reads, stores, input, dvars>>

XvilvlD(t) ==
    /\ Running(t) /\ Ins(t).op = "xvilvl.d"
    /\ cpu' = [cpu EXCEPT ![t] = ExecXvilvlD(cpu[t])]
    /\ UNCHANGED <<mem, reads, stores, input, dvars>>

XvilvhD(t) ==
    /\ Running(t) /\ Ins(t).op = "xvilvh.d"
    /\ cpu' = [cpu EXCEPT ![t] = ExecXvilvhD(cpu[t])]
    /\ UNCHANGED <<mem, reads, stores, input, dvars>>

\* The store is recorded, with the thread that made it, for every word it
\* addresses (inside the modelled memory or not).
Xvst(t) ==
    /\ Running(t) /\ Ins(t).op = "xvst"
    /\ mem' = ExecXvstMem(cpu[t], mem)
    /\ stores' = stores \o [k \in 1..8 |-> <<StoreWords(cpu[t])[k], t>>]
    /\ cpu' = [cpu EXCEPT ![t].pc = @ + 1]
    /\ UNCHANGED <<reads, input, dvars>>

\* jr $ra: the routine returns.
Jr(t) ==
    /\ Running(t) /\ Ins(t).op = "jr"
    /\ cpu' = [cpu EXCEPT ![t].pc = 0]
    /\ UNCHANGED <<mem, reads, stores, input, dvars>>

\* ---- the packing call ----------------------------------------------------
Ldbs == WinCols..MaxLdb
Fills == {"index", "rowcol", "row"}
Inputs == {[ldb |-> ld, col0 |-> c0, fill |-> f] :
             ld \in Ldbs, c0 \in 0..(MaxLdb - WinCols), f \in Fills}

\* The device helper's variables while the packing routine is modelled.
DevIdle ==
    /\ nnapi_handle = [build |-> "generic", nnapi_runtime_feature_level |-> 0,
                       device_api_level |-> 0, hw |-> <<>>]
    /\ target_device_option = "ALL_DEVICES"
    /\ devices = <<>>
    /\ frame = [pc |-> "idle"]
    /\ status = "none"
    /\ queries = <<>>
    /\ call = [fn |-> "none"]

KInit(in) ==
    /\ input = in
    /\ mem = InitialMem(in.ldb, in.col0, in.fill)
    /\ reads = {}
    /\ stores = <<>>

\* The byte address of row r of the window.
RowAddr(in, r) == 4 * SrcWord(in.ldb, in.col0, r, 0)

\* MlasSgemmTransposePackB16x4Lasx(D, B, ldb) is called once.
PackInit ==
    /\ \E in \in Inputs :
          /\ in.col0 + WinCols <= in.ldb
          /\ KInit(in)
          /\ cpu = [t \in {"main"} |->
                      Thread("MlasSgemmTransposePackB16x4Lasx", 0, RowAddr(in, 0), in.ldb)]
    /\ DevIdle

PackNext ==
    \E t \in {"main"} :
        \/ SlliD(t)
        \/ AddD(t)
        \/ Vld(t)
        \/ Vldx(t)
        \/ XvpermiQ(t)
        \/ XvilvlW(t)
        \/ XvilvhW(t)
        \/ XvilvlD(t)
        \/ XvilvhD(t)
        \/ Xvst(t)
        \/ Jr(t)

SpecPack == PackInit /\ [][PackNext]_vars

\* The two expansions of the macro that make up the routine, each run by a
\* thread of its own on the same destination: rows 0..7 stored at byte offset
\* 0*4, rows 8..15 at byte offset 8*4. a2 holds the row stride in bytes, as it
\* does where the routine expands the macro. The source elements all differ.
ConcInit ==
    /\ \E in \in Inputs :
          /\ in.col0 + WinCols <= in.ldb
          /\ in.fill = "index"
          /\ KInit(in)
          /\ cpu = [t \in {"blk0", "blk8"} |->
                      IF t = "blk0"
                      THEN Thread("TransposePackB8x4BlockLasx_0", 0, RowAddr(in, 0), 4 * in.ldb)
                      ELSE Thread("TransposePackB8x4BlockLasx_8", 0, RowAddr(in, 8), 4 * in.ldb)]
    /\ DevIdle

ConcNext ==
    \E t \in {"blk0", "blk8"} :
        \/ AddD(t)
        \/ Vld(t)
        \/ Vldx(t)
        \/ XvpermiQ(t)
        \/ XvilvlW(t)
        \/ XvilvhW(t)
        \/ XvilvlD(t)
        \/ XvilvhD(t)
        \/ Xvst(t)

SpecConc == ConcInit /\ [][ConcNext]_vars

(***************************************************************************)
(* The claims about the packing routine.                                   *)
(***************************************************************************)
\* B[r*ldb + c] as it was when the routine was called, and D[o] as it is now.
B0(r, c) ==
    InitialMem(input.ldb, input.col0, input.fill)[SrcWord(input.ldb, input.col0, r, c)]
D(o) == mem[o]
DstOffsets == 0..(DstWords - 1)
WinR == 0..(WinRows - 1)
WinC == 0..(WinCols - 1)
PackReturned == DOMAIN cpu = {"main"} /\ cpu["main"].pc = 0
StoredWords == {stores[k][1] : k \in DOMAIN stores}
StoreCount(w) == Cardinality({k \in DOMAIN stores : stores[k][1] = w})
WordsStoredBy(t) == {stores[k][1] : k \in {n \in DOMAIN stores : stores[n][2] = t}}

\* C1: after MlasSgemmTransposePackB16x4Lasx(D, B, ldb) returns, for all r in
\* 0..15 and c in 0..3, D[c*16 + r] = B[r*ldb + c].
C1_Transpose16x4 ==
    PackReturned => \A r \in WinR, c \in WinC : D(c * 16 + r) = B0(r, c)

C1_Witness ==
    /\ PackReturned
    /\ input.ldb > WinCols /\ input.fill = "index"
    /\ D(1 * 16 + 9) = B0(9, 1)
    /\ D(3 * 16 + 15) = SrcWord(input.ldb, input.col0, 15, 3)

\* C2 as stated: element (r, c) of the source is at element offset
\* (r div 4) * (cols*4) + c*4 + (r mod 4) of the packed buffer.
PanelOffset(r, c) == (r \div 4) * (WinCols * 4) + c * 4 + (r % 4)
C2_PanelOffsets ==
    PackReturned => \A r \in WinR, c \in WinC : D(PanelOffset(r, c)) = B0(r, c)

\* C2 as amended: every element offset o of the packed buffer holds source
\* element (o mod 16, o div 16), that is element (r, c) is at offset c*16 + r;
\* when all source elements differ, the offset of the stated formula holds
\* element (r, c) exactly when r div 4 = c.
C2_ColumnOffsets ==
    PackReturned =>
        /\ \A o \in DstOffsets : D(o) = B0(o % WinRows, o \div WinRows)
        /\ input.fill = "index" =>
              \A r \in WinR, c \in WinC :
                  (D(PanelOffset(r, c)) = B0(r, c)) <=> (r \div 4 = c)

C2_Witness ==
    /\ PackReturned
    /\ input.fill = "index"
    /\ D(PanelOffset(0, 1)) = B0(4, 0)
    /\ D(PanelOffset(5, 1)) = B0(5, 1)

\* How often value v occurs in the destination, and in the source window.
CountD(v) == Cardinality({o \in DstOffsets : D(o) = v})
CountB(v) == Cardinality({rc \in WinR \X WinC : B0(rc[1], rc[2]) = v})

\* C3: the routine writes each of the 64 destination offsets exactly once;
\* the destination holds the values of the window, each as often as the window
\* does (every value is a copy of a source element, none is lost or repeated),
\* and when the source elements all differ so do the 64 destination values:
\* each source element is found back at exactly one offset.
C3_PurePermutation ==
    PackReturned =>
        /\ \A o \in DstOffsets : StoreCount(o) = 1
        /\ Len(stores) = DstWords
        /\ \A o \in DstOffsets : \E r \in WinR, c \in WinC : D(o) = B0(r, c)
        /\ \A r \in WinR, c \in WinC : CountD(B0(r, c)) = CountB(B0(r, c))
        /\ input.fill # "row" => Cardinality({D(o) : o \in DstOffsets}) = DstWords

C3_Witness ==
    /\ PackReturned
    /\ input.fill = "row"
    /\ CountD(7) = 4
    /\ \A o \in DstOffsets : StoreCount(o) = 1

\* C4: every load of the routine is of an element r*ldb + c of the window (r
\* in 0..15, c in 0..3), every store is to a destination offset in 0..63, and
\* the source matrix is never changed.
C4_AccessesInWindow ==
    DOMAIN cpu = {"main"} =>
        /\ reads \subseteq WindowWords(input.ldb, input.col0)
        /\ StoredWords \subseteq DstOffsets
        /\ \A w \in MatWords(input.ldb) :
              mem[w] = InitialMem(input.ldb, input.col0, input.fill)[w]

C4_Witness ==
    /\ PackReturned
    /\ input.ldb > WinCols /\ input.col0 > 0
    /\ reads = WindowWords(input.ldb, input.col0)
    /\ StoredWords = DstOffsets

ConcDone == DOMAIN cpu = {"blk0", "blk8"} /\ \A t \in DOMAIN cpu : ~Running(t)

\* C5: the two 8-row block packs store to disjoint sets of destination
\* offsets, and however their instructions interleave, once both are done the
\* memory is what the single 16x4 call leaves.
C5_BlocksIndependent ==
    DOMAIN cpu = {"blk0", "blk8"} =>
        /\ WordsStoredBy("blk0") \cap WordsStoredBy("blk8") = {}
        /\ ConcDone =>
              mem = RunAlone(Thread("MlasSgemmTransposePackB16x4Lasx", 0,
                                    RowAddr(input, 0), input.ldb),
                             InitialMem(input.ldb, input.col0, input.fill))

\* Both blocks are done, and their stores were interleaved: the block of rows
\* 8..15 stored first, then the block of rows 0..7, then the other again.
C5_Witness ==
    /\ ConcDone
    /\ Len(stores) = DstWords
    /\ stores[1][2] = "blk8" /\ stores[9][2] = "blk0" /\ stores[17][2] = "blk8"
    /\ stores[DstWords][2] = "blk0"
    /\ D(8) # Junk

(***************************************************************************)
(* Part 2: nnapi_api_helper.cc                                             *)
(***************************************************************************)
ANEURALNETWORKS_FEATURE_LEVEL_3 == 29
ANDROID_API_S == 31
ANEURALNETWORKS_DEVICE_CPU == 2

TargetDeviceOptions == {"ALL_DEVICES", "CPU_DISABLED", "CPU_ONLY"}
\* The device types the hardware reports: the CPU and an accelerator.
DeviceTypes == {ANEURALNETWORKS_DEVICE_CPU, 4}
\* The feature levels the hardware reports for a device (nnapi-cpu reports 1000).
HwLevels == {28, 1000}
\* The runtime feature levels of the handle and the API levels of the device.
NnapiLevels == {28, 29, 31}
ApiLevels == {30, 33}
\* The feature levels of the devices a caller hands to GetNNAPIEffectiveFeatureLevel.
SpanLevels == {0 - 1, 0, 28, 30, 1000}

\* Sequences over S of length lo..hi.
SeqsOf(S, lo, hi) == UNION {[1..n -> S] : n \in lo..hi}

\* The handles: the runtime level it reports, the build, the device's API
\* level (read on Android only) and the devices the hardware enumerates.
Handles ==
    {[build |-> b, nnapi_runtime_feature_level |-> n, device_api_level |-> a, hw |-> hw] :
        b \in {"generic", "android"}, n \in NnapiLevels, a \in ApiLevels \cup {0},
        hw \in SeqsOf([type : DeviceTypes, feature_level : HwLevels], 0, MaxDevices)}
ValidHandle(h) == (h.build = "android") <=> (h.device_api_level # 0)

\* static int32_t GetNNAPIRuntimeFeatureLevel(const NnApi& nnapi_handle)
\* (every level of the model fits in an int32_t: the casts change nothing).
GetNNAPIRuntimeFeatureLevel(h) ==
    IF h.build = "android" /\ h.device_api_level < ANDROID_API_S
    THEN h.device_api_level
    ELSE h.nnapi_runtime_feature_level

Max(a, b) == IF a >= b THEN a ELSE b
Min(a, b) == IF a <= b THEN a ELSE b

\* The loop of GetDeviceFeatureLevelInternal: std::max over the devices, from acc.
RECURSIVE MaxFeatureLevel(_, _)
MaxFeatureLevel(devs, acc) ==
    IF devs = <<>> THEN acc
    ELSE MaxFeatureLevel(Tail(devs), Max(Head(devs).feature_level, acc))

\* static int32_t GetDeviceFeatureLevelInternal(nnapi_handle, devices)
GetDeviceFeatureLevelInternal(h, devs) ==
    LET target_feature_level == GetNNAPIRuntimeFeatureLevel(h)
        devices_feature_level == MaxFeatureLevel(devs, 0 - 1)
    IN IF devices_feature_level > 0 /\ devices_feature_level < target_feature_level
       THEN devices_feature_level
       ELSE target_feature_level

\* The handle (never nullptr, which is 0), the name and the DeviceWrapper of
\* the device the hardware enumerates at index i.
HwDevice(i) == i + 1
HwName(i) == <<"nnapi-device", i>>
Wrapper(h, i) ==
    [device |-> HwDevice(i), name |-> HwName(i), type |-> h.hw[i + 1].type,
     feature_level |-> h.hw[i + 1].feature_level]
\* A device the caller's list may hold before the call.
CallerDevice ==
    [device |-> MaxDevices + 2, name |-> <<"caller-device", 0>>, type |-> 4,
     feature_level |-> 28]

\* The packing routine's variables while the device helper is modelled.
PackIdle ==
    /\ mem = <<>>
    /\ cpu = <<>>
    /\ reads = {}
    /\ stores = <<>>
    /\ input = [ldb |-> 0, col0 |-> 0, fill |-> "none"]

EntryFrame ==
    [pc |-> "entry", num_devices |-> 0, cpu_index |-> 0 - 1, i |-> 0, device |-> 0,
     device_name |-> <<>>, device_type |-> 0, curr_device_feature_level |-> 0]

\* One hardware query, as issued: which, for which index, and whether it succeeded.
Query(q, i, ok) == [q |-> q, i |-> i, ok |-> ok]

\* RETURN_STATUS_ON_ERROR_WITH_NOTE: on an error the function returns the failure.
ReturnFailure ==
    /\ status' = "FAIL"
    /\ frame' = [frame EXCEPT !.pc = "returned"]

\* The guard comparing with ANEURALNETWORKS_FEATURE_LEVEL_2 (28) instead.
GTD_CheckRuntimeLevel_Level2 ==
    /\ frame.pc = "entry"
    /\ IF GetNNAPIRuntimeFeatureLevel(nnapi_handle) < 28
       THEN /\ status' = "OK"
            /\ frame' = [frame EXCEPT !.pc = "returned"]
       ELSE /\ frame' = [frame EXCEPT !.pc = "getDeviceCount", !.num_devices = 0]
            /\ UNCHANGED status
    /\ UNCHANGED <<kvars, nnapi_handle, target_device_option, devices, queries, call>>

\* if (GetNNAPIRuntimeFeatureLevel(nnapi_handle) < ANEURALNETWORKS_FEATURE_LEVEL_3)
\*   return Status::OK();
GTD_CheckRuntimeLevel ==
    /\ frame.pc = "entry"
    /\ IF GetNNAPIRuntimeFeatureLevel(nnapi_handle) < ANEURALNETWORKS_FEATURE_LEVEL_3
       THEN /\ status' = "OK"
            /\ frame' = [frame EXCEPT !.pc = "returned"]
       ELSE /\ frame' = [frame EXCEPT !.pc = "getDeviceCount", !.num_devices = 0]
            /\ UNCHANGED status
    /\ UNCHANGED <<kvars, nnapi_handle, target_device_option, devices, queries, call>>

\* ANeuralNetworks_getDeviceCount(&num_devices); int32_t cpu_index = -1; i = 0
GTD_GetDeviceCount ==
    /\ frame.pc = "getDeviceCount"
    /\ \E ok \in BOOLEAN :
          /\ queries' = Append(queries, Query("getDeviceCount", 0, ok))
          /\ IF ok
             THEN /\ frame' = [frame EXCEPT !.pc = "loop", !.cpu_index = 0 - 1, !.i = 0,
                                            !.num_devices = Len(nnapi_handle.hw)]
                  /\ UNCHANGED status
             ELSE ReturnFailure
    /\ UNCHANGED <<kvars, nnapi_handle, target_device_option, devices, call>>

\* for (uint32_t i = 0; i < num_devices; i++) { device = nullptr; ... }
GTD_LoopTest ==
    /\ frame.pc = "loop"
    /\ IF frame.i < frame.num_devices
       THEN frame' = [frame EXCEPT !.pc = "getDevice", !.device = 0, !.device_name = <<>>,
                                   !.device_type = 0]
       ELSE frame' = [frame EXCEPT !.pc = "putCpuLast"]
    /\ UNCHANGED <<kvars, nnapi_handle, target_device_option, devices, status, queries, call>>

\* ANeuralNetworks_getDevice(i, &device)
GTD_GetDevice ==
    /\ frame.pc = "getDevice"
    /\ \E ok \in BOOLEAN :
          /\ queries' = Append(queries, Query("getDevice", frame.i, ok))
          /\ IF ok
             THEN /\ frame' = [frame EXCEPT !.pc = "getName", !.device = HwDevice(frame.i)]
                  /\ UNCHANGED status
             ELSE ReturnFailure
    /\ UNCHANGED <<kvars, nnapi_handle, target_device_option, devices, call>>

\* ANeuralNetworksDevice_getName(device, &device_name)
GTD_GetName ==
    /\ frame.pc = "getName"
    /\ \E ok \in BOOLEAN :
          /\ queries' = Append(queries, Query("getName", frame.device - 1, ok))
          /\ IF ok
             THEN /\ frame' = [frame EXCEPT !.pc = "getType",
                                            !.device_name = HwName(frame.device - 1)]
                  /\ UNCHANGED status
             ELSE ReturnFailure
    /\ UNCHANGED <<kvars, nnapi_handle, target_device_option, devices, call>>

\* The query's status dropped: on an error the loop goes on, device_type as it was.
GTD_GetType_ErrorIgnored ==
    /\ frame.pc = "getType"
    /\ \E ok \in BOOLEAN :
          /\ queries' = Append(queries, Query("getType", frame.device - 1, ok))
          /\ frame' = [frame EXCEPT !.pc = "getFeatureLevel",
                          !.device_type = IF ok THEN nnapi_handle.hw[frame.device].type ELSE @]
          /\ UNCHANGED status
    /\ UNCHANGED <<kvars, nnapi_handle, target_device_option, devices, call>>

\* ANeuralNetworksDevice_getType(device, &device_type)
GTD_GetType ==
    /\ frame.pc = "getType"
    /\ \E ok \in BOOLEAN :
          /\ queries' = Append(queries, Query("getType", frame.device - 1, ok))
          /\ IF ok
             THEN /\ frame' = [frame EXCEPT !.pc = "getFeatureLevel",
                                            !.device_type = nnapi_handle.hw[frame.device].type]
                  /\ UNCHANGED status
             ELSE ReturnFailure
    /\ UNCHANGED <<kvars, nnapi_handle, target_device_option, devices, call>>

\* int64_t curr_device_feature_level = 0;
\* ANeuralNetworksDevice_getFeatureLevel(device, &curr_device_feature_level)
GTD_GetFeatureLevel ==
    /\ frame.pc = "getFeatureLevel"
    /\ \E ok \in BOOLEAN :
          /\ queries' = Append(queries, Query("getFeatureLevel", frame.device - 1, ok))
          /\ IF ok
             THEN /\ frame' = [frame EXCEPT !.pc = "select",
                                 !.curr_device_feature_level =
                                     nnapi_handle.hw[frame.device].feature_level]
                  /\ UNCHANGED status
             ELSE ReturnFailure
    /\ UNCHANGED <<kvars, nnapi_handle, target_device_option, devices, call>>

\* The rest of the loop body: the device is skipped (continue) or pushed back,
\* cpu_index noting the place of a CPU device; then i++.
GTD_SelectDevice ==
    /\ frame.pc = "select"
    /\ LET device_is_cpu == frame.device_type = ANEURALNETWORKS_DEVICE_CPU
       IN IF \/ (target_device_option = "CPU_DISABLED" /\ device_is_cpu)
             \/ (target_device_option = "CPU_ONLY" /\ ~device_is_cpu)
          THEN /\ frame' = [frame EXCEPT !.pc = "loop", !.i = @ + 1]
               /\ UNCHANGED devices
          ELSE /\ frame' = [frame EXCEPT !.pc = "loop", !.i = @ + 1,
                              !.cpu_index = IF device_is_cpu THEN Len(devices) ELSE @]
               /\ devices' = Append(devices,
                                 [device |-> frame.device, name |-> frame.device_name,
                                  type |-> frame.device_type,
                                  feature_level |-> frame.curr_device_feature_level])
    /\ UNCHANGED <<kvars, nnapi_handle, target_device_option, status, queries, call>>

\* The swap made with the first element instead of the last.
SwapWithLast_First(devs, cpu_index) ==
    [devs EXCEPT ![1] = devs[cpu_index + 1], ![cpu_index + 1] = devs[1]]

\* std::swap(devices[devices.size() - 1], devices[cpu_index]), on 0-based indexes.
SwapWithLast(devs, cpu_index) ==
    [devs EXCEPT ![Len(devs)] = devs[cpu_index + 1], ![cpu_index + 1] = devs[Len(devs)]]

\* if (cpu_index != -1 && cpu_index != devices.size() - 1) std::swap(...);
\* return Status::OK();
GTD_PutCpuLast ==
    /\ frame.pc = "putCpuLast"
    /\ devices' = IF frame.cpu_index # 0 - 1 /\ frame.cpu_index # Len(devices) - 1
                  THEN SwapWithLast(devices, frame.cpu_index)
                  ELSE devices
    /\ status' = "OK"
    /\ frame' = [frame EXCEPT !.pc = "returned"]
    /\ UNCHANGED <<kvars, nnapi_handle, target_device_option, queries, call>>

\* GetNNAPIEffectiveFeatureLevelFromTargetDeviceOption, once GetTargetDevices
\* has returned: -1 on a failure, else the level of the devices it listed.
FromTargetDeviceOption_Return ==
    /\ call.fn = "GetNNAPIEffectiveFeatureLevelFromTargetDeviceOption"
    /\ ~call.done
    /\ frame.pc = "returned"
    /\ call' = [call EXCEPT !.done = TRUE,
                   !.result = IF status # "OK" THEN 0 - 1
                              ELSE GetDeviceFeatureLevelInternal(nnapi_handle, devices)]
    /\ UNCHANGED <<kvars, nnapi_handle, target_device_option, devices, frame, status, queries>>

\* GetTargetDevices is called on a list that is empty or holds a device, or
\* GetNNAPIEffectiveFeatureLevelFromTargetDeviceOption calls it on an empty list.
DevInit ==
    /\ PackIdle
    /\ nnapi_handle \in {h \in Handles : ValidHandle(h)}
    /\ target_device_option \in TargetDeviceOptions
    /\ \E fn \in {"GetTargetDevices", "GetNNAPIEffectiveFeatureLevelFromTargetDeviceOption"} :
          /\ devices \in (IF fn = "GetTargetDevices" THEN {<<>>, <<CallerDevice>>} ELSE {<<>>})
          /\ call = [fn |-> fn, devices0 |-> devices, done |-> FALSE, result |-> 0]
    /\ frame = EntryFrame
    /\ status = "none"
    /\ queries = <<>>

DevNext ==
    \/ GTD_CheckRuntimeLevel
    \/ GTD_GetDeviceCount
    \/ GTD_LoopTest
    \/ GTD_GetDevice
    \/ GTD_GetName
    \/ GTD_GetType
    \/ GTD_GetFeatureLevel
    \/ GTD_SelectDevice
    \/ GTD_PutCpuLast
    \/ FromTargetDeviceOption_Return

SpecDev == DevInit /\ [][DevNext]_vars

\* int32_t GetNNAPIEffectiveFeatureLevel(nnapi_handle, device_handles)
GetNNAPIEffectiveFeatureLevel_Call ==
    /\ call.fn = "GetNNAPIEffectiveFeatureLevel"
    /\ ~call.done
    /\ call' = [call EXCEPT !.done = TRUE,
                   !.result = GetDeviceFeatureLevelInternal(nnapi_handle, devices)]
    /\ UNCHANGED <<kvars, nnapi_handle, target_device_option, devices, frame, status, queries>>

\* GetNNAPIEffectiveFeatureLevel is called on a span of devices of any levels.
LevelInit ==
    /\ PackIdle
    /\ nnapi_handle \in {h \in Handles : ValidHandle(h) /\ h.hw = <<>>}
    /\ target_device_option = "ALL_DEVICES"
    /\ \E ls \in SeqsOf(SpanLevels, 0, MaxSpan) :
          devices = [k \in DOMAIN ls |->
                       [device |-> k, name |-> HwName(k - 1), type |-> 4,
                        feature_level |-> ls[k]]]
    /\ call = [fn |-> "GetNNAPIEffectiveFeatureLevel", devices0 |-> devices,
               done |-> FALSE, result |-> 0]
    /\ frame = [pc |-> "idle"]
    /\ status = "none"
    /\ queries = <<>>

LevelNext == GetNNAPIEffectiveFeatureLevel_Call

SpecLevel == LevelInit /\ [][LevelNext]_vars

(***************************************************************************)
(* The claims about the device helper.                                     *)
(***************************************************************************)
RuntimeLevel == GetNNAPIRuntimeFeatureLevel(nnapi_handle)
GTD_Returned == frame.pc = "returned"
HwIndexes == 0..(Len(nnapi_handle.hw) - 1)
AllWrappers == {Wrapper(nnapi_handle, i) : i \in HwIndexes}
CpuWrappers == {w \in AllWrappers : w.type = ANEURALNETWORKS_DEVICE_CPU}

\* C6: with a runtime level of at least FEATURE_LEVEL_3, every query
\* succeeding and one CPU among the enumerated devices, GetTargetDevices on an
\* empty list returns every device once with the CPU last (unrestricted), the
\* CPU alone (CPU_ONLY), or the non-CPU devices alone (CPU_DISABLED).
C6_TargetDevices ==
    ( /\ GTD_Returned /\ status = "OK"
      /\ RuntimeLevel >= ANEURALNETWORKS_FEATURE_LEVEL_3
      /\ call.devices0 = <<>>
      /\ Cardinality(CpuWrappers) = 1 )
    => CASE target_device_option = "ALL_DEVICES" ->
              /\ Len(devices) = Len(nnapi_handle.hw)
              /\ Range(devices) = AllWrappers
              /\ devices[Len(devices)].type = ANEURALNETWORKS_DEVICE_CPU
         [] target_device_option = "CPU_ONLY" ->
              /\ Len(devices) = 1
              /\ Range(devices) = CpuWrappers
         [] target_device_option = "CPU_DISABLED" ->
              /\ Len(devices) = Len(nnapi_handle.hw) - 1
              /\ Range(devices) = AllWrappers \ CpuWrappers

\* Three devices with the CPU enumerated first: it was swapped with the last.
C6_Witness ==
    /\ GTD_Returned /\ status = "OK"
    /\ target_device_option = "ALL_DEVICES"
    /\ call.devices0 = <<>>
    /\ Len(nnapi_handle.hw) = 3 /\ Cardinality(CpuWrappers) = 1
    /\ nnapi_handle.hw[1].type = ANEURALNETWORKS_DEVICE_CPU
    /\ Len(devices) = 3
    /\ devices[3].device = HwDevice(0) /\ devices[1].device = HwDevice(2)

\* The maximum feature level among the devices of a non-empty list.
MaxLevelOf(devs) ==
    CHOOSE l \in {devs[k].feature_level : k \in DOMAIN devs} :
        \A k \in DOMAIN devs : devs[k].feature_level <= l

\* C7 as stated: for a non-empty list of devices of any feature levels,
\* GetNNAPIEffectiveFeatureLevel returns no more than the minimum of the
\* runtime feature level and the maximum feature level among the devices.
C7_CappedByDevices ==
    (call.fn = "GetNNAPIEffectiveFeatureLevel" /\ call.done /\ devices # <<>>)
    => call.result <= Min(RuntimeLevel, MaxLevelOf(devices))

\* The k-th query of a run in which no query fails.
QueryKinds == <<"getDevice", "getName", "getType", "getFeatureLevel">>
ExpectedQuery(k) ==
    IF k = 1 THEN <<"getDeviceCount", 0>>
    ELSE <<QueryKinds[((k - 2) % 4) + 1], (k - 2) \div 4>>

\* C8: with a runtime level of at least FEATURE_LEVEL_3 the queries are
\* issued in the order device count, then per index getDevice, getName,
\* getType, getFeatureLevel; none follows a failing one; GetTargetDevices
\* fails exactly when a query failed, and the effective feature level is -1
\* exactly then.
C8_QueriesAndFailure ==
    RuntimeLevel >= ANEURALNETWORKS_FEATURE_LEVEL_3 =>
        /\ Len(queries) <= 1 + 4 * Len(nnapi_handle.hw)
        /\ \A k \in DOMAIN queries : <<queries[k].q, queries[k].i>> = ExpectedQuery(k)
        /\ \A k \in DOMAIN queries :
              ~queries[k].ok => (k = Len(queries) /\ GTD_Returned /\ status = "FAIL")
        /\ GTD_Returned =>
              /\ status \in {"OK", "FAIL"}
              /\ (status = "FAIL") <=> (\E k \in DOMAIN queries : ~queries[k].ok)
              /\ status = "OK" => Len(queries) = 1 + 4 * Len(nnapi_handle.hw)
        /\ call.done => ((call.result = 0 - 1) <=> (status = "FAIL"))

\* The type query of the second device failed, and the level returned is -1.
C8_Witness ==
    /\ RuntimeLevel >= ANEURALNETWORKS_FEATURE_LEVEL_3
    /\ call.done /\ call.result = 0 - 1
    /\ Len(queries) = 8
    /\ queries[8] = Query("getType", 1, FALSE)
    /\ status = "FAIL"

\* C9: with a runtime level below FEATURE_LEVEL_3, GetTargetDevices issues no
\* query, leaves the list as it was and returns success, for every policy, and
\* the effective feature level is then the runtime feature level.
C9_BelowFeatureLevel3 ==
    RuntimeLevel < ANEURALNETWORKS_FEATURE_LEVEL_3 =>
        /\ queries = <<>>
        /\ devices = call.devices0
        /\ GTD_Returned => status = "OK"
        /\ call.done => call.result = RuntimeLevel

\* The hardware has devices, yet none is listed and the level is the runtime's.
C9_Witness ==
    /\ RuntimeLevel < ANEURALNETWORKS_FEATURE_LEVEL_3
    /\ call.done /\ call.result = 28
    /\ Len(nnapi_handle.hw) = 2
    /\ target_device_option = "CPU_ONLY"
    /\ devices = <<>> /\ status = "OK"

\* C10 as stated: GetNNAPIEffectiveFeatureLevel returns the maximum feature
\* level across the given devices, or the runtime feature level if none is
\* given.
C10_MaxAcrossDevices ==
    (call.fn = "GetNNAPIEffectiveFeatureLevel" /\ call.done)
    => call.result = (IF devices = <<>> THEN RuntimeLevel ELSE MaxLevelOf(devices))

=============================================================================
